---- MODULE Spec2Model ----
(***************************************************************************)
(* Model of the conversion core of src/src/scripts/converter.ts: the item  *)
(* list and its status machine (main), the busy flag, the AVIF encode      *)
(* channel (avifPending, the worker and the messages in flight) and the    *)
(* bulk export.  Every async function is cut at its awaits: the code       *)
(* between two awaits is one action, because the page runs it without      *)
(* interleaving (one event-loop task plus its microtasks).                 *)
(***************************************************************************)
EXTENDS Integers, Sequences, FiniteSets, TLC

\* ---------------------------------------------------------------- bounds
\* Largest item id handed out in a run (caps ++nextItemId).
MaxId == 2
\* Longest batch of files of one drop / one file-input change.
MaxBatch == 2
\* Largest encode-channel request id sent in a run (caps ++avifReqId).
MaxReq == 2
\* Number of async activations (convertOne / convertAll / downloadAllAsZip)
\* the model can hold suspended at an await at the same time.
MaxTasks == 2
\* Largest number of entries of an archive built.
MaxEntries == 2
\* Longest file name an output file name is derived from.
MaxName == 4
\* Longest byte sequence crc32 is called on (besides the check sequence).
MaxBytes == 3

\* ---------------------------------------------------------------- values
\* A nullable field: null is the empty sequence, a value v is <<v>>.
Null == <<>>
Some(v) == <<v>>
IsSet(o) == o # Null

Formats == {"webp", "avif"}
\* qualitySlider.value, in percent (quality01 is this value / 100).
Qualities == {50, 80}
AcceptedTypes == {"image/jpeg", "image/png"}
FileTypes == AcceptedTypes \cup {"image/gif"}
BatchesOf(types) == UNION {[1..n -> [type : types]] : n \in 1..MaxBatch}
\* The batches of Spec: one accepted and one rejected type (nothing after the type
\* test of addFiles reads a file's type).
Batches == BatchesOf({"image/jpeg", "image/gif"})
\* The batches of SpecAdd: every type.
AllBatches == BatchesOf(FileTypes)

RejectedMsg == "JPG or PNG only"
\* The message of whatever decodeToImageData or the canvas set-up threw.
DecodeFailedMsg == "decode failed"
EncoderUnavailableMsg == "webp not supported"
CodecErrorMsg == "codec error"
ArchiveReadFailedMsg == "blob read failed"
SaveFailedMsg == "save failed"

WebpBlob == [type |-> "image/webp", size |-> 1]
\* new Blob([bytes], { type: 'image/avif' })
AvifBlob(bytes) == [type |-> "image/avif", size |-> 1, bytes |-> bytes]

\* The bytes the codec makes of one image at one quality (the library's encode: a
\* function of its two inputs, different inputs giving different bytes).
avifEncode(rgba, quality) == [rgba |-> rgba, quality |-> quality]
\* Bytes that are the encoding of no request of the run.
StaleBytes == [rgba |-> 0, quality |-> 0]

VARIABLES
    items,            \* main: let items: Item[]
    nextItemId,       \* main: let nextItemId
    isBusy,           \* main: let isBusy
    controlsDisabled, \* pickBtn/fileInput/formatSelect/qualitySlider .disabled
    format,           \* formatSelect.value
    quality,          \* qualitySlider.value
    errorText,        \* errorEl.textContent
    tasks,            \* suspended async activations, by slot
    avifWorker,       \* TRUE once the worker has been created
    avifReqId,        \* let avifReqId
    avifPending,      \* avifPending: set of <<request id, awaiting task slot>>
    toWorker,         \* requests posted to the worker, not yet answered
    fromWorker,       \* responses posted by the worker, not yet delivered
    revoked,          \* the arguments of URL.revokeObjectURL so far, in call order
    unloaded,         \* TRUE once the window's beforeunload listener has run
    lastCall          \* the listener or continuation that ran last, with its argument;
                      \* "whileBusy" for a click listener that ran with isBusy set

vars == <<items, nextItemId, isBusy, controlsDisabled, format, quality, errorText,
          tasks, avifWorker, avifReqId, avifPending, toWorker, fromWorker, revoked,
          unloaded, lastCall>>

\* Everything but the observation of the last call.
progVars == <<items, nextItemId, isBusy, controlsDisabled, format, quality, errorText,
              tasks, avifWorker, avifReqId, avifPending, toWorker, fromWorker, revoked,
              unloaded>>

channelVars == <<avifWorker, avifReqId, avifPending, toWorker, fromWorker>>

Slots == 1..MaxTasks
Idle == [kind |-> "none", pc |-> "idle", item |-> 0, idx |-> 0,
         format |-> "webp", quality |-> 0, req |-> 0, got |-> Null]
Active == {t \in Slots : tasks[t].kind # "none"}
FreeSlots == {t \in Slots : tasks[t].kind = "none"}
FirstFree == CHOOSE t \in FreeSlots : \A u \in FreeSlots : t <= u

Call(op, arg) == [op |-> op, arg |-> arg]

\* ---------------------------------------------------------------- items
ItemIds(its) == {its[i].id : i \in DOMAIN its}
NoOutput(it) == ~IsSet(it.outputBlob) /\ ~IsSet(it.outputMime) /\ ~IsSet(it.outputSize)
AllOutput(it) == IsSet(it.outputBlob) /\ IsSet(it.outputMime) /\ IsSet(it.outputSize)

NewItem(id, file) ==
    [id |-> id, file |-> file, inputUrl |-> id, status |-> "ready",
     outputBlob |-> Null, outputMime |-> Null, outputSize |-> Null, error |-> Null]

\* Faulty variant: the busy flag is set but the controls stay enabled.
setBusy_NoDisable(next) ==
    /\ isBusy' = next
    /\ controlsDisabled' = FALSE

\* setBusy: the flag and the four controls it disables (render is presentation).
setBusy(next) ==
    /\ isBusy' = next
    /\ controlsDisabled' = next

Init ==
    /\ items = <<>>
    /\ nextItemId = 0
    /\ isBusy = FALSE
    /\ controlsDisabled = FALSE
    /\ format \in Formats
    /\ quality \in Qualities
    /\ errorText = ""
    /\ tasks = [t \in Slots |-> Idle]
    /\ avifWorker = FALSE
    /\ avifReqId = 0
    /\ avifPending = {}
    /\ toWorker = {}
    /\ fromWorker = {}
    /\ revoked = <<>>
    /\ unloaded = FALSE
    /\ lastCall = Call("main", <<>>)

\* ---------------------------------------------------------------- addFiles
\* Faulty variant: only image/jpeg passes the type test.
IsAccepted_JpegOnly(f) == f.type = "image/jpeg"

IsAccepted(f) == f.type \in AcceptedTypes

accepted(files) == SelectSeq(files, IsAccepted)
rejected(files) == SelectSeq(files, LAMBDA f : ~IsAccepted(f))

\* The push loop of addFiles: one new item per accepted file, ids ++nextItemId.
pushAccepted(its, nid, acc) ==
    its \o [k \in 1..Len(acc) |-> NewItem(nid + k, acc[k])]

addFiles(files) ==
    /\ nextItemId + Len(accepted(files)) <= MaxId
    /\ errorText' = IF Len(rejected(files)) > 0 THEN RejectedMsg ELSE ""
    /\ items' = pushAccepted(items, nextItemId, accepted(files))
    /\ nextItemId' = nextItemId + Len(accepted(files))
    /\ UNCHANGED <<isBusy, controlsDisabled, format, quality, tasks, channelVars,
                   revoked, unloaded>>

\* handleFiles, called by the dropzone's drop listener: nothing guards it.
Drop(files) ==
    /\ Len(files) > 0
    /\ addFiles(files)
    /\ lastCall' = Call("addFiles", files)

\* handleFiles, called by fileInput's change listener: a disabled input fires none.
InputChange(files) ==
    /\ ~controlsDisabled
    /\ Len(files) > 0
    /\ addFiles(files)
    /\ lastCall' = Call("addFiles", files)

\* ---------------------------------------------------------------- clearing
\* Faulty variant: the reset forgets the error field.
ClearedItem_KeepError(it) ==
    [it EXCEPT !.outputBlob = Null, !.outputMime = Null, !.outputSize = Null,
               !.status = "ready"]

\* The body of clearOutputs' loop, for one item.
ClearedItem(it) ==
    [it EXCEPT !.outputBlob = Null, !.outputMime = Null, !.outputSize = Null,
               !.error = Null, !.status = "ready"]

\* The statuses the items had when a settings listener ran (recorded in lastCall).
statusesOf(its) == [i \in DOMAIN its |-> its[i].status]

clearOutputs ==
    items' = [i \in DOMAIN items |-> ClearedItem(items[i])]

\* qualitySlider's input listener; a disabled slider fires none.
QualityInput(q) ==
    /\ ~controlsDisabled
    /\ q # quality
    /\ quality' = q
    /\ clearOutputs
    /\ lastCall' = Call("qualityInput", statusesOf(items))
    /\ UNCHANGED <<nextItemId, revoked, unloaded, isBusy, controlsDisabled, format, errorText, tasks,
                   channelVars>>

\* formatSelect's change listener; a disabled select fires none.
FormatChange(f) ==
    /\ ~controlsDisabled
    /\ f # format
    /\ format' = f
    /\ clearOutputs
    /\ lastCall' = Call("formatChange", statusesOf(items))
    /\ UNCHANGED <<nextItemId, revoked, unloaded, isBusy, controlsDisabled, quality, errorText, tasks,
                   channelVars>>

\* The preview URLs of a list of items, in list order.
inputUrls(its) == [i \in 1..Len(its) |-> its[i].inputUrl]

\* Faulty variant: clearing the list also restarts the id counter.
clearAll_ResetIds ==
    /\ revoked' = revoked \o inputUrls(items)
    /\ items' = <<>>
    /\ nextItemId' = 0

\* Faulty variant: the list is emptied and no preview URL is revoked.
clearAll_NoRevoke ==
    /\ items' = <<>>
    /\ UNCHANGED <<nextItemId, revoked>>

\* clearAll: the preview URL of every item is revoked, then the list is replaced
\* by an empty one.
clearAll ==
    /\ revoked' = revoked \o inputUrls(items)
    /\ items' = <<>>
    /\ UNCHANGED nextItemId

\* clearBtn's click listener.
ClearClick ==
    /\ lastCall' = IF isBusy THEN Call("whileBusy", <<>>) ELSE Call("clearClick", <<>>)
    /\ IF isBusy
       THEN UNCHANGED progVars
       ELSE /\ errorText' = ""
            /\ clearAll
            /\ UNCHANGED <<isBusy, controlsDisabled, format, quality, tasks, channelVars,
                           unloaded>>

\* ---------------------------------------------------------------- conversion
\* Faulty variant: a new attempt keeps the error of the previous one.
ConvertingItem_KeepError(it) == [it EXCEPT !.status = "converting"]

\* item.status = 'converting'; item.error = null (convertOne and convertOneInternal).
ConvertingItem(it) == [it EXCEPT !.status = "converting", !.error = Null]

\* blob.type || (format === 'webp' ? 'image/webp' : 'image/avif')
OutputMimeOf(blob, fmt) ==
    IF blob.type # "" THEN blob.type
    ELSE IF fmt = "webp" THEN "image/webp" ELSE "image/avif"

\* Faulty variant: the success path stores the blob and its type but not its size.
DoneItem_NoSize(it, blob, fmt) ==
    [it EXCEPT !.outputBlob = Some(blob), !.outputMime = Some(OutputMimeOf(blob, fmt)),
               !.status = "done"]

\* The success assignments of convertOne.
DoneItem(it, blob, fmt) ==
    [it EXCEPT !.outputBlob = Some(blob), !.outputMime = Some(OutputMimeOf(blob, fmt)),
               !.outputSize = Some(blob.size), !.status = "done"]

\* The success assignments of convertOneInternal (it also resets error).
DoneItemInternal(it, blob, fmt) ==
    [DoneItem(it, blob, fmt) EXCEPT !.error = Null]

\* The catch blocks of convertOne and convertOneInternal.
ErrorItem(it, msg) == [it EXCEPT !.status = "error", !.error = Some(msg)]

\* A write through the item reference a conversion holds: the item of that id takes
\* its new value from `new`, the list with the write applied to every item (an item
\* no longer in the list is written to without effect on the list).
UpdateItem(its, id, new) ==
    [i \in DOMAIN its |-> IF its[i].id = id THEN new[i] ELSE its[i]]

\* The list with each item as the given assignments would leave it.
AllConverting(its) == [i \in DOMAIN its |-> ConvertingItem(its[i])]
AllDone(its, blob, fmt) == [i \in DOMAIN its |-> DoneItem(its[i], blob, fmt)]
AllDoneInternal(its, blob, fmt) ==
    [i \in DOMAIN its |-> DoneItemInternal(its[i], blob, fmt)]
AllError(its, msg) == [i \in DOMAIN its |-> ErrorItem(its[i], msg)]

\* Faulty variant: convertAll skips nothing.
Skipped_Never(it) == FALSE

\* convertAll's skip test: item.status === 'done' && item.outputBlob
Skipped(it) == it.status = "done" /\ IsSet(it.outputBlob)

\* convertAll's for-of loop from index `from` on: the first item it does not skip, or 0.
NextToConvert(its, from) ==
    LET cand == {i \in DOMAIN its : i >= from /\ ~Skipped(its[i])}
    IN IF cand = {} THEN 0 ELSE CHOOSE i \in cand : \A j \in cand : i <= j

\* Faulty variant: convertOne without its isBusy test.
convertOne_NoBusyGuard(itemId) ==
    IF itemId \notin ItemIds(items) \/ FreeSlots = {}
    THEN UNCHANGED progVars
    ELSE /\ errorText' = ""
         /\ setBusy(TRUE)
         /\ items' = UpdateItem(items, itemId, AllConverting(items))
         /\ tasks' = [tasks EXCEPT ![FirstFree] =
                [kind |-> "one", pc |-> "decode", item |-> itemId, idx |-> 0,
                 format |-> format, quality |-> quality, req |-> 0, got |-> Null]]
         /\ UNCHANGED <<nextItemId, revoked, unloaded, format, quality, channelVars>>

\* convertOne up to its first await (createImageBitmap in decodeToImageData).
convertOne(itemId) ==
    IF isBusy \/ itemId \notin ItemIds(items) \/ FreeSlots = {}
    THEN UNCHANGED progVars
    ELSE /\ errorText' = ""
         /\ setBusy(TRUE)
         /\ items' = UpdateItem(items, itemId, AllConverting(items))
         /\ tasks' = [tasks EXCEPT ![FirstFree] =
                [kind |-> "one", pc |-> "decode", item |-> itemId, idx |-> 0,
                 format |-> format, quality |-> quality, req |-> 0, got |-> Null]]
         /\ UNCHANGED <<nextItemId, revoked, unloaded, format, quality, channelVars>>

\* The per-item convert button's click listener.
ConvertOneClick(itemId) ==
    /\ convertOne(itemId)
    /\ lastCall' = IF isBusy THEN Call("whileBusy", <<>>) ELSE Call("convertOne", <<itemId>>)

\* convertAll's loop resumed at index `from`, with `its` the list as it is by then:
\* either the next convertOneInternal runs up to its first await, or the loop ends
\* and the finally block clears the busy flag.
LoopFrom(t, its, from) ==
    LET n == NextToConvert(its, from)
    IN IF n = 0
       THEN /\ items' = its
            /\ tasks' = [tasks EXCEPT ![t] = Idle]
            /\ setBusy(FALSE)
       ELSE /\ items' = [its EXCEPT ![n] = ConvertingItem(its[n])]
            /\ tasks' = [tasks EXCEPT ![t] =
                   [kind |-> "all", pc |-> "decode", item |-> its[n].id, idx |-> n,
                    format |-> format, quality |-> quality, req |-> 0, got |-> Null]]
            /\ UNCHANGED <<isBusy, controlsDisabled>>

\* Faulty variant: convertAll starts every item it does not skip at once.
convertAll_AllAtOnce ==
    IF isBusy \/ Len(items) = 0 \/ FreeSlots = {}
    THEN UNCHANGED progVars
    ELSE /\ errorText' = ""
         /\ LET n == NextToConvert(items, 1)
                t == FirstFree
            IN IF n = 0
               THEN /\ setBusy(FALSE)
                    /\ UNCHANGED <<items, tasks>>
               ELSE /\ setBusy(TRUE)
                    /\ items' = [i \in DOMAIN items |->
                                    IF Skipped(items[i]) THEN items[i]
                                    ELSE ConvertingItem(items[i])]
                    /\ tasks' = [tasks EXCEPT ![t] =
                           [kind |-> "all", pc |-> "decode", item |-> items[n].id,
                            idx |-> n, format |-> format, quality |-> quality,
                            req |-> 0, got |-> Null]]
         /\ UNCHANGED <<nextItemId, revoked, unloaded, format, quality, channelVars>>

\* convertAll up to its first await, or to its end when every item is skipped.
convertAll ==
    IF isBusy \/ Len(items) = 0 \/ FreeSlots = {}
    THEN UNCHANGED progVars
    ELSE /\ errorText' = ""
         /\ LET n == NextToConvert(items, 1)
                t == FirstFree
            IN IF n = 0
               THEN /\ setBusy(FALSE)
                    /\ UNCHANGED <<items, tasks>>
               ELSE /\ setBusy(TRUE)
                    /\ items' = [items EXCEPT ![n] = ConvertingItem(items[n])]
                    /\ tasks' = [tasks EXCEPT ![t] =
                           [kind |-> "all", pc |-> "decode", item |-> items[n].id,
                            idx |-> n, format |-> format, quality |-> quality,
                            req |-> 0, got |-> Null]]
         /\ UNCHANGED <<nextItemId, revoked, unloaded, format, quality, channelVars>>

\* convertBtn's click listener.
ConvertClick ==
    /\ convertAll
    /\ lastCall' = IF isBusy THEN Call("whileBusy", <<>>) ELSE Call("convertAll", <<>>)

\* ---------------------------------------------------------------- continuations
\* The code after a successful encode: the success assignments, then the finally
\* block of convertOne, or the rest of convertAll's loop.
SettleOk(t, blob) ==
    LET k == tasks[t]
    IN IF k.kind = "one"
       THEN /\ items' = UpdateItem(items, k.item, AllDone(items, blob, k.format))
            /\ tasks' = [tasks EXCEPT ![t] = Idle]
            /\ setBusy(FALSE)
       ELSE LoopFrom(t, UpdateItem(items, k.item,
                                   AllDoneInternal(items, blob, k.format)),
                     k.idx + 1)

\* Faulty variant: convertOneInternal without its catch block, so that the throw
\* leaves convertAll's loop for its finally block.
SettleErr_NoCatch(t, msg) ==
    LET k == tasks[t]
    IN /\ items' = IF k.kind = "one" THEN UpdateItem(items, k.item, AllError(items, msg))
                   ELSE items
       /\ tasks' = [tasks EXCEPT ![t] = Idle]
       /\ setBusy(FALSE)

\* The code after a throw inside the try: the catch block, then as above.
SettleErr(t, msg) ==
    LET k == tasks[t]
    IN IF k.kind = "one"
       THEN /\ items' = UpdateItem(items, k.item, AllError(items, msg))
            /\ tasks' = [tasks EXCEPT ![t] = Idle]
            /\ setBusy(FALSE)
       ELSE LoopFrom(t, UpdateItem(items, k.item, AllError(items, msg)),
                     k.idx + 1)

DecodeOutcomes == {"ok", DecodeFailedMsg}

\* encodeAvifInWorker up to its await: the worker is created on first use, the
\* request gets id ++avifReqId, is registered in avifPending and posted.
\* `t` is the slot of the caller that awaits the completion; imageData stands for
\* the pixels (the id of the item they were decoded from), quality01 is in percent.
encodeAvifInWorker(t, imageData, quality01) ==
    /\ avifReqId < MaxReq
    /\ avifWorker' = TRUE
    /\ avifReqId' = avifReqId + 1
    /\ avifPending' = avifPending \cup {<<avifReqId + 1, t>>}
    /\ toWorker' = toWorker \cup
           {[id |-> avifReqId + 1, rgba |-> imageData, quality |-> quality01]}
    /\ UNCHANGED fromWorker

\* decodeToImageData settles: createImageBitmap rejects, getContext returns null
\* (in decodeToImageData or before putImageData), or the pixels are there and the
\* encode starts (canvas.toBlob for webp, the worker for avif).
DecodeDone(t, outcome) ==
    /\ tasks[t].kind \in {"one", "all"}
    /\ tasks[t].pc = "decode"
    /\ lastCall' = Call("decodeDone", <<outcome>>)
    /\ UNCHANGED <<nextItemId, revoked, unloaded, format, quality, errorText>>
    /\ IF outcome # "ok"
       THEN SettleErr(t, outcome) /\ UNCHANGED channelVars
       ELSE IF tasks[t].format = "webp"
            THEN /\ tasks' = [tasks EXCEPT ![t].pc = "encodeWebp"]
                 /\ UNCHANGED <<items, isBusy, controlsDisabled, channelVars>>
            ELSE /\ encodeAvifInWorker(t, tasks[t].item, tasks[t].quality)
                 /\ tasks' = [tasks EXCEPT ![t].pc = "awaitAvif",
                                           ![t].req = avifReqId + 1]
                 /\ UNCHANGED <<items, isBusy, controlsDisabled>>

WebpOutcomes == {"ok", EncoderUnavailableMsg}

\* canvasToBlob settles: toBlob's callback got a blob, or null.
EncodeWebpDone(t, outcome) ==
    /\ tasks[t].pc = "encodeWebp"
    /\ lastCall' = Call("encodeWebpDone", <<outcome>>)
    /\ UNCHANGED <<nextItemId, revoked, unloaded, format, quality, errorText, channelVars>>
    /\ IF outcome = "ok" THEN SettleOk(t, WebpBlob) ELSE SettleErr(t, outcome)

\* ---------------------------------------------------------------- encode channel
WorkerOutcomes == {"ok", CodecErrorMsg}

\* The worker's message handler: it answers a request under the request's id, with
\* ok:true and the bytes, or from its catch block with ok:false and the message.
WorkerEncode(req, outcome) ==
    /\ req \in toWorker
    /\ toWorker' = toWorker \ {req}
    /\ fromWorker' = fromWorker \cup
           {[id |-> req.id, ok |-> outcome = "ok",
             bytes |-> IF outcome = "ok" THEN Some(avifEncode(req.rgba, req.quality))
                       ELSE Null,
             error |-> IF outcome = "ok" THEN "" ELSE outcome]}
    /\ lastCall' = Call("workerEncode", <<>>)
    /\ UNCHANGED <<items, nextItemId, revoked, unloaded, isBusy, controlsDisabled, format, quality,
                   errorText, tasks, avifWorker, avifReqId, avifPending>>

\* What a caller of encodeAvifInWorker that is no conversion got back from it.
Returned(blob) == Some([blob |-> Some(blob), error |-> ""])
Thrown(msg) == Some([blob |-> Null, error |-> msg])

\* pending.resolve(msg.bytes): encodeAvifInWorker returns the blob to its caller,
\* whose continuation runs in the microtasks of the same task.
resolvePending(t, bytes) ==
    IF tasks[t].kind = "call"
    THEN /\ tasks' = [tasks EXCEPT ![t].pc = "resolved",
                                   ![t].got = Returned(AvifBlob(bytes))]
         /\ UNCHANGED <<items, isBusy, controlsDisabled>>
    ELSE SettleOk(t, AvifBlob(bytes))

\* Faulty variant: the rejection loses the worker's message.
rejectPending_Generic(t, err) ==
    IF tasks[t].kind = "call"
    THEN /\ tasks' = [tasks EXCEPT ![t].pc = "rejected", ![t].got = Thrown("error")]
         /\ UNCHANGED <<items, isBusy, controlsDisabled>>
    ELSE SettleErr(t, "error")

\* pending.reject(new Error(msg.error)): encodeAvifInWorker throws in its caller.
rejectPending(t, err) ==
    IF tasks[t].kind = "call"
    THEN /\ tasks' = [tasks EXCEPT ![t].pc = "rejected", ![t].got = Thrown(err)]
         /\ UNCHANGED <<items, isBusy, controlsDisabled>>
    ELSE SettleErr(t, err)

\* Faulty variant: the listener settles whichever completion is pending.
onWorkerMessage_AnyPending(msg) ==
    IF avifPending = {}
    THEN UNCHANGED <<items, isBusy, controlsDisabled, tasks, avifPending>>
    ELSE LET p == CHOOSE q \in avifPending : \A r \in avifPending : q[1] <= r[1]
         IN /\ avifPending' = avifPending \ {p}
            /\ IF msg.ok THEN resolvePending(p[2], msg.bytes[1])
                         ELSE rejectPending(p[2], msg.error)

\* Faulty variant: the listener settles the completion and leaves it in the map.
onWorkerMessage_NoDelete(msg) ==
    LET pending == {p \in avifPending : p[1] = msg.id}
    IN IF pending = {}
       THEN UNCHANGED <<items, isBusy, controlsDisabled, tasks, avifPending>>
       ELSE LET p == CHOOSE q \in pending : TRUE
            IN /\ UNCHANGED avifPending
               /\ IF msg.ok THEN resolvePending(p[2], msg.bytes[1])
                            ELSE rejectPending(p[2], msg.error)

\* The page's message listener for one message of type encode-avif-result.
onWorkerMessage(msg) ==
    LET pending == {p \in avifPending : p[1] = msg.id}
    IN IF pending = {}
       THEN UNCHANGED <<items, isBusy, controlsDisabled, tasks, avifPending>>
       ELSE LET p == CHOOSE q \in pending : TRUE
            IN /\ avifPending' = avifPending \ {p}
               /\ IF msg.ok THEN resolvePending(p[2], msg.bytes[1])
                            ELSE rejectPending(p[2], msg.error)

\* A response of the worker is delivered to the page.
WorkerMessage(msg) ==
    /\ msg \in fromWorker
    /\ fromWorker' = fromWorker \ {msg}
    /\ lastCall' = Call("workerMessage", <<msg>>)
    /\ UNCHANGED <<nextItemId, revoked, unloaded, format, quality, errorText, avifWorker, avifReqId,
                   toWorker>>
    /\ onWorkerMessage(msg)

\* A caller that is no conversion calls encodeAvifInWorker for the pixels `img` at
\* quality `q` from the free slot t, and awaits the blob.
CallEncode(t, img, q) ==
    /\ tasks[t].kind = "none"
    /\ encodeAvifInWorker(t, img, q)
    /\ tasks' = [tasks EXCEPT ![t] =
           [kind |-> "call", pc |-> "awaitAvif", item |-> img, idx |-> 0,
            format |-> "avif", quality |-> q, req |-> avifReqId + 1, got |-> Null]]
    /\ lastCall' = Call("encodeAvifInWorker", <<img, q>>)
    /\ UNCHANGED <<items, nextItemId, revoked, unloaded, isBusy, controlsDisabled, format, quality,
                   errorText>>

\* The well-formed responses a duplicated or late delivery can hand to the listener.
Responses ==
    {[id |-> i, ok |-> TRUE, bytes |-> Some(StaleBytes), error |-> ""] : i \in 1..MaxReq}
    \cup {[id |-> i, ok |-> FALSE, bytes |-> Null, error |-> CodecErrorMsg] : i \in 1..MaxReq}

\* The message listener runs for a message that is the answer to no request in
\* flight (a duplicate, a late one, or one with an id never sent).
LateMessage(msg) ==
    /\ avifWorker
    /\ onWorkerMessage(msg)
    /\ lastCall' = Call("lateMessage", <<msg>>)
    /\ UNCHANGED <<nextItemId, revoked, unloaded, format, quality, errorText, avifWorker, avifReqId,
                   toWorker, fromWorker>>

\* Faulty variant: the error listener rejects every pending completion.
WorkerError_DropPending ==
    /\ avifWorker
    /\ avifPending' = {}
    /\ lastCall' = Call("workerError", <<>>)
    /\ UNCHANGED <<items, nextItemId, revoked, unloaded, isBusy, controlsDisabled, format, quality,
                   errorText, tasks, avifWorker, avifReqId, toWorker, fromWorker>>

\* The page's error listener of the worker: console.error(ev).
WorkerError ==
    /\ avifWorker
    /\ lastCall' = Call("workerError", <<>>)
    /\ UNCHANGED progVars

\* ---------------------------------------------------------------- bytes
\* A byte is a number 0..255 and a Uint8Array a sequence of bytes.  A 32-bit
\* unsigned number is kept as its two 16-bit halves, n = hi * 65536 + lo, so that
\* no value leaves the range of signed 32-bit integers.
Word(n) == [hi |-> n \div 65536, lo |-> n % 65536]

\* a ^ b on numbers of n bits.
RECURSIVE BitXor(_, _, _)
BitXor(a, b, n) ==
    IF n = 0 THEN 0
    ELSE ((a + b) % 2) + 2 * BitXor(a \div 2, b \div 2, n - 1)

\* v ^ w and w >>> 1 on 32-bit numbers.
WordXor(v, w) == [hi |-> BitXor(v.hi, w.hi, 16), lo |-> BitXor(v.lo, w.lo, 16)]
ShiftRight1(w) == [hi |-> w.hi \div 2, lo |-> (w.lo \div 2) + (w.hi % 2) * 32768]

\* 0xedb88320 and 0xffffffff
CrcPolynomial == [hi |-> 60856, lo |-> 33568]
AllOnes == [hi |-> 65535, lo |-> 65535]

\* The inner loop of crc32, with j rounds to go: mask is all ones iff crc is odd.
RECURSIVE crc32Rounds(_, _)
crc32Rounds(crc, j) ==
    IF j = 0 THEN crc
    ELSE IF crc.lo % 2 = 1
         THEN crc32Rounds(WordXor(ShiftRight1(crc), CrcPolynomial), j - 1)
         ELSE crc32Rounds(ShiftRight1(crc), j - 1)

\* The outer loop of crc32 from byte i on; at the head of every iteration crc is a
\* 32-bit number (its value is taken there, iteration by iteration).
IsWord(w) == w.hi \in 0..65535 /\ w.lo \in 0..65535
RECURSIVE crc32From(_, _, _)
crc32From(crc, bytes, i) ==
    IF IsWord(crc) /\ i <= Len(bytes)
    THEN crc32From(crc32Rounds(WordXor(crc, Word(bytes[i])), 8), bytes, i + 1)
    ELSE crc

\* Faulty variant: the final ^ 0xffffffff is left out.
crc32_NoFinalXor(bytes) == crc32From(AllOnes, bytes, 1)

crc32(bytes) == WordXor(crc32From(AllOnes, bytes, 1), AllOnes)

\* u16 of a number, u32 of a 32-bit number: little-endian, the higher bits dropped.
u16(n) == <<n % 256, (n \div 256) % 256>>
u32(w) == <<w.lo % 256, (w.lo \div 256) % 256, w.hi % 256, (w.hi \div 256) % 256>>

RECURSIVE concat(_)
concat(chunks) ==
    IF chunks = <<>> THEN <<>> ELSE Head(chunks) \o concat(Tail(chunks))

\* TextEncoder.encode: the UTF-8 bytes of a string, a string being the sequence of
\* its code points (below 65536).
RECURSIVE encode(_)
encode(str) ==
    IF str = <<>> THEN <<>>
    ELSE LET c == Head(str)
         IN (IF c < 128 THEN <<c>>
             ELSE IF c < 2048 THEN <<192 + (c \div 64), 128 + (c % 64)>>
             ELSE <<224 + (c \div 4096), 128 + ((c \div 64) % 64), 128 + (c % 64)>>)
            \o encode(Tail(str))

\* ---------------------------------------------------------------- archive
\* An entry is [name, blob]; blob is what entry.blob.arrayBuffer() settles with:
\* the bytes, or null when the read rejects.
localHeader(nameBytes, dataBytes) ==
    concat(<<u32(Word(67324752)), u16(20), u16(2048), u16(0), u16(0), u16(0),
             u32(crc32(dataBytes)), u32(Word(Len(dataBytes))),
             u32(Word(Len(dataBytes))), u16(Len(nameBytes)), u16(0), nameBytes>>)

\* Faulty variant: every central record points at the start of the archive.
centralHeader_ZeroOffset(nameBytes, dataBytes, offset) ==
    concat(<<u32(Word(33639248)), u16(20), u16(20), u16(2048), u16(0), u16(0), u16(0),
             u32(crc32(dataBytes)), u32(Word(Len(dataBytes))),
             u32(Word(Len(dataBytes))), u16(Len(nameBytes)), u16(0), u16(0), u16(0),
             u16(0), u32(Word(0)), u32(Word(0)), nameBytes>>)

centralHeader(nameBytes, dataBytes, offset) ==
    concat(<<u32(Word(33639248)), u16(20), u16(20), u16(2048), u16(0), u16(0), u16(0),
             u32(crc32(dataBytes)), u32(Word(Len(dataBytes))),
             u32(Word(Len(dataBytes))), u16(Len(nameBytes)), u16(0), u16(0), u16(0),
             u16(0), u32(Word(0)), u32(Word(offset)), nameBytes>>)

\* buildZip's loop from entry i on, all blobs being readable.
RECURSIVE zipParts(_, _, _, _, _)
zipParts(entries, i, localParts, centralParts, offset) ==
    IF i > Len(entries)
    THEN [localParts |-> localParts, centralParts |-> centralParts, offset |-> offset]
    ELSE LET nameBytes == encode(entries[i].name)
             dataBytes == entries[i].blob[1]
             header == localHeader(nameBytes, dataBytes)
         IN zipParts(entries, i + 1,
                     localParts \o <<header, dataBytes>>,
                     centralParts \o <<centralHeader(nameBytes, dataBytes, offset)>>,
                     offset + Len(header) + Len(dataBytes))

\* The bytes of the archive of entries whose blobs are all readable.
zipBytes(entries) ==
    LET parts == zipParts(entries, 1, <<>>, <<>>, 0)
        centralDir == concat(parts.centralParts)
        end == concat(<<u32(Word(101010256)), u16(0), u16(0), u16(Len(entries)),
                        u16(Len(entries)), u32(Word(Len(centralDir))),
                        u32(Word(parts.offset)), u16(0)>>)
    IN concat(parts.localParts \o <<centralDir, end>>)

\* buildZip: the archive as a blob, or the throw of the first blob read that
\* rejects (nothing is returned then).
buildZip(entries) ==
    IF \E i \in DOMAIN entries : entries[i].blob = Null
    THEN Thrown(ArchiveReadFailedMsg)
    ELSE Returned([type |-> "application/zip", bytes |-> zipBytes(entries)])

\* ---------------------------------------------------------------- bulk export
\* const done = items.filter((it) => it.outputBlob)
doneItems(its) == SelectSeq(its, LAMBDA it : IsSet(it.outputBlob))

\* downloadAllAsZip up to its first await (the first blob read of buildZip).
downloadAllAsZip ==
    IF isBusy \/ Len(doneItems(items)) = 0 \/ FreeSlots = {}
    THEN UNCHANGED progVars
    ELSE /\ errorText' = ""
         /\ setBusy(TRUE)
         /\ tasks' = [tasks EXCEPT ![FirstFree] =
                [kind |-> "zip", pc |-> "buildZip", item |-> 0, idx |-> 0,
                 format |-> format, quality |-> quality, req |-> 0, got |-> Null]]
         /\ UNCHANGED <<items, nextItemId, revoked, unloaded, format, quality, channelVars>>

\* downloadAllBtn's click listener.
DownloadAllClick ==
    /\ downloadAllAsZip
    /\ lastCall' = IF isBusy THEN Call("whileBusy", <<>>) ELSE Call("downloadAll", <<>>)

ZipOutcomes == {"ok", ArchiveReadFailedMsg}
SaveOutcomes == {"ok", SaveFailedMsg}

\* Faulty variant: the failure is shown but the busy flag is never cleared.
zipFailed_StayBusy(t, msg) ==
    /\ errorText' = msg
    /\ tasks' = [tasks EXCEPT ![t] = Idle]
    /\ UNCHANGED <<isBusy, controlsDisabled>>

\* The catch and finally blocks of downloadAllAsZip.
zipFailed(t, msg) ==
    /\ errorText' = msg
    /\ tasks' = [tasks EXCEPT ![t] = Idle]
    /\ setBusy(FALSE)

\* buildZip settles: the archive is built and saveBlob is called, or a blob read threw.
BuildZipDone(t, outcome) ==
    /\ tasks[t].kind = "zip"
    /\ tasks[t].pc = "buildZip"
    /\ lastCall' = Call("buildZipDone", <<outcome>>)
    /\ UNCHANGED <<items, nextItemId, revoked, unloaded, format, quality, channelVars>>
    /\ IF outcome = "ok"
       THEN /\ tasks' = [tasks EXCEPT ![t].pc = "saveBlob"]
            /\ UNCHANGED <<isBusy, controlsDisabled, errorText>>
       ELSE zipFailed(t, outcome)

\* saveBlob settles: the archive is saved, or the save threw.
SaveDone(t, outcome) ==
    /\ tasks[t].kind = "zip"
    /\ tasks[t].pc = "saveBlob"
    /\ lastCall' = Call("saveDone", <<>>)
    /\ UNCHANGED <<items, nextItemId, revoked, unloaded, format, quality, channelVars>>
    /\ IF outcome = "ok"
       THEN /\ tasks' = [tasks EXCEPT ![t] = Idle]
            /\ setBusy(FALSE)
            /\ UNCHANGED errorText
       ELSE zipFailed(t, outcome)

\* The listeners and continuations of clearing and converting.
Converting ==
    \/ \E f \in Formats : FormatChange(f)
    \/ ClearClick
    \/ \E id \in ItemIds(items) : ConvertOneClick(id)
    \/ ConvertClick
    \/ \E t \in Slots, o \in DecodeOutcomes : DecodeDone(t, o)
    \/ \E t \in Slots, o \in WebpOutcomes : EncodeWebpDone(t, o)
    \/ \E req \in toWorker, o \in WorkerOutcomes : WorkerEncode(req, o)
    \/ \E msg \in fromWorker : WorkerMessage(msg)

\* The quality slider and the bulk export.
SliderAndExport ==
    \/ \E q \in Qualities : QualityInput(q)
    \/ DownloadAllClick
    \/ \E t \in Slots, o \in ZipOutcomes : BuildZipDone(t, o)
    \/ \E t \in Slots, o \in SaveOutcomes : SaveDone(t, o)

Next ==
    \/ \E files \in Batches : Drop(files)
    \/ \E files \in Batches : InputChange(files)
    \/ Converting
    \/ SliderAndExport

\* The page with the dropped and picked files drawn from every type, its quality
\* slider left where it was and no bulk export (neither writes an item in a way
\* the format select and the conversions do not).
NextAdd ==
    \/ \E files \in AllBatches : Drop(files)
    \/ \E files \in AllBatches : InputChange(files)
    \/ Converting

Spec == Init /\ [][Next]_vars

InitAdd == Init /\ quality = 80

SpecAdd == InitAdd /\ [][NextAdd]_vars

\* The encode channel used by callers that await concurrently: each calls
\* encodeAvifInWorker once, the worker answers in any order, and the answers are
\* delivered in any order.
NextCallers ==
    \/ \E t \in Slots, img \in 1..MaxId : CallEncode(t, img, quality)
    \/ \E req \in toWorker, o \in WorkerOutcomes : WorkerEncode(req, o)
    \/ \E msg \in fromWorker : WorkerMessage(msg)

\* The page converting JPEG files, dropped one at a time, to AVIF with convertAll,
\* with deliveries of duplicated or late responses and error events of the worker.
NextChannel ==
    \/ Drop(<<[type |-> "image/jpeg"]>>)
    \/ ConvertClick
    \/ \E t \in Slots, o \in DecodeOutcomes : DecodeDone(t, o)
    \/ \E req \in toWorker, o \in WorkerOutcomes : WorkerEncode(req, o)
    \/ \E msg \in fromWorker : WorkerMessage(msg)
    \/ \E msg \in Responses : LateMessage(msg)
    \/ WorkerError

InitChannel == Init /\ format = "avif" /\ quality = 80

SpecCallers == InitChannel /\ [][NextCallers]_vars

SpecChannel == InitChannel /\ [][NextChannel]_vars

\* ---------------------------------------------------------------- settling
\* Every awaited operation settles: a decode and a WebP encode resolve or reject,
\* the worker answers every request it was posted and the answer is delivered,
\* and the archive build and the save resolve or reject. The continuation of the
\* awaiting function then runs (the event loop runs every queued job).
Settles ==
    \/ \E t \in Slots, o \in DecodeOutcomes : DecodeDone(t, o)
    \/ \E t \in Slots, o \in WebpOutcomes : EncodeWebpDone(t, o)
    \/ \E req \in toWorker, o \in WorkerOutcomes : WorkerEncode(req, o)
    \/ \E msg \in fromWorker : WorkerMessage(msg)
    \/ \E t \in Slots, o \in ZipOutcomes : BuildZipDone(t, o)
    \/ \E t \in Slots, o \in SaveOutcomes : SaveDone(t, o)

\* As long as something is awaited, one of the awaited operations settles.
Settling == WF_vars(Settles)

SpecSettling == Init /\ [][Next]_vars /\ Settling

\* ---------------------------------------------------------------- checksums
\* Byte sequences crc32 is called on: every sequence of at most MaxBytes bytes of
\* a few values, and the nine ASCII digits "123456789".
CrcBytes == {0, 1, 49, 128, 255}
CheckBytes == <<49, 50, 51, 52, 53, 54, 55, 56, 57>>
CrcInputs == UNION {[1..n -> CrcBytes] : n \in 0..MaxBytes} \cup {CheckBytes}

\* crc32 is called on a byte sequence and returns (one call a behaviour).
Crc32(bytes) ==
    /\ lastCall.op = "main"
    /\ lastCall' = Call("crc32", <<bytes, crc32(bytes)>>)
    /\ UNCHANGED progVars

NextCrc == \E bytes \in CrcInputs : Crc32(bytes)

SpecCrc == InitChannel /\ [][NextCrc]_vars

\* ---------------------------------------------------------------- session end
\* The window's beforeunload listener: the preview URL of every item of the list
\* is revoked; the list itself is not touched. The page is gone afterwards.
BeforeUnload ==
    /\ ~unloaded
    /\ revoked' = revoked \o inputUrls(items)
    /\ unloaded' = TRUE
    /\ lastCall' = Call("beforeunload", <<>>)
    /\ UNCHANGED <<items, nextItemId, isBusy, controlsDisabled, format, quality,
                   errorText, tasks, channelVars>>

\* The page until its session ends: no listener or continuation runs afterwards.
NextPreview ==
    \/ ~unloaded /\ Next
    \/ BeforeUnload

SpecPreview == Init /\ [][NextPreview]_vars

\* ---------------------------------------------------------------- file names
\* filename.lastIndexOf(ch), counted from 0; -1 when ch does not occur.
lastIndexOf(str, ch) ==
    LET at == {i \in 1..Len(str) : str[i] = ch}
    IN IF at = {} THEN -1 ELSE (CHOOSE i \in at : \A j \in at : j <= i) - 1

\* Faulty variant: the test is lastDot >= 0.
stripExt_FromZero(filename) ==
    LET lastDot == lastIndexOf(filename, 46)
    IN IF lastDot >= 0 THEN SubSeq(filename, 1, lastDot) ELSE filename

\* stripExt: strings are sequences of code points, 46 is '.'.
stripExt(filename) ==
    LET lastDot == lastIndexOf(filename, 46)
    IN IF lastDot > 0 THEN SubSeq(filename, 1, lastDot) ELSE filename

withExt(filename, ext) == stripExt(filename) \o <<46>> \o ext

\* format === 'webp' ? 'webp' : 'avif', as code points.
ExtOf(fmt) == IF fmt = "webp" THEN <<119, 101, 98, 112>> ELSE <<97, 118, 105, 102>>

\* The output file name of download and of downloadAllAsZip.
outputFilename(name, fmt) == withExt(name, ExtOf(fmt))

\* ---------------------------------------------------------------- pure functions
\* The names and the blobs of the archives built: "a", "e-acute.a" and the euro
\* sign (one, two and three bytes in UTF-8); no byte, "PK", one byte 255, and a
\* blob whose read rejects.
ZipNames == {<<97>>, <<233, 46, 97>>, <<8364>>}
ZipBlobs == {Some(<<>>), Some(<<80, 75>>), Some(<<255>>), Null}
ZipEntries == [name : ZipNames, blob : ZipBlobs]
ZipInputs == UNION {[1..n -> ZipEntries] : n \in 0..MaxEntries}

\* buildZip is called on a sequence of entries and settles (one call a behaviour).
BuildZip(entries) ==
    /\ lastCall.op = "main"
    /\ lastCall' = Call("buildZip", <<entries, buildZip(entries)>>)
    /\ UNCHANGED progVars

NextZip == \E entries \in ZipInputs : BuildZip(entries)

SpecZip == InitChannel /\ [][NextZip]_vars

\* The file names derived from: every string of at most MaxName characters over
\* 'a', 'J' and '.', and photo.JPEG.
NameChars == {97, 74, 46}
Filenames ==
    UNION {[1..n -> NameChars] : n \in 0..MaxName}
    \cup {<<112, 104, 111, 116, 111, 46, 74, 80, 69, 71>>}

\* The output file name of one input file name is derived for one format (one call
\* a behaviour).
DeriveName(filename, fmt) ==
    /\ lastCall.op = "main"
    /\ lastCall' = Call("withExt", <<filename, ExtOf(fmt), outputFilename(filename, fmt)>>)
    /\ UNCHANGED progVars

NextName == \E filename \in Filenames, fmt \in Formats : DeriveName(filename, fmt)

SpecName == InitChannel /\ [][NextName]_vars

\* ================================================================ claims
\* The positions present before and after a step (an item keeps its position).
Kept == DOMAIN items \cap DOMAIN items'
UiOps == {"addFiles", "clearClick", "qualityInput", "formatChange", "whileBusy"}

\* C1: in every reachable state every item has its three output fields set if and
\* only if its status is done (so a converting or error item carries no output).
C1_OutputIffDone ==
    \A i \in DOMAIN items :
        /\ items[i].status = "done" => AllOutput(items[i])
        /\ items[i].status # "done" => NoOutput(items[i])

\* C2 as stated: every status change is one of ready->converting, converting->done,
\* converting->error, done->ready, error->ready.
C2_OriginalTransitions ==
    [][\A i \in Kept :
          items'[i].status # items[i].status =>
              <<items[i].status, items'[i].status>> \in
                  {<<"ready", "converting">>, <<"converting", "done">>,
                   <<"converting", "error">>, <<"done", "ready">>,
                   <<"error", "ready">>}]_vars

\* C2 amended: every status change is one of ready->converting, done->converting,
\* error->converting, converting->done, converting->error, done->ready,
\* error->ready; in particular no step moves an item from converting to ready.
C2_Transitions ==
    [][\A i \in Kept :
          items'[i].status # items[i].status =>
              <<items[i].status, items'[i].status>> \in
                  {<<"ready", "converting">>, <<"done", "converting">>,
                   <<"error", "converting">>, <<"converting", "done">>,
                   <<"converting", "error">>, <<"done", "ready">>,
                   <<"error", "ready">>}]_vars

\* C2 witness: convertOne has just moved an item that held an output (it was done,
\* or error after an earlier done) straight to converting.
C2_Witness ==
    /\ lastCall.op = "convertOne"
    /\ \E i \in DOMAIN items :
          items[i].status = "converting" /\ IsSet(items[i].outputBlob)

\* C3: while the busy flag is set, a listener of the page (add files, clear all,
\* settings change) neither adds, removes nor resets any item.
C3_BusyBlocksListeners ==
    [][(isBusy /\ lastCall'.op \in UiOps) =>
          (items' = items /\ nextItemId' = nextItemId)]_vars

\* C4: at most one of convertOne, convertAll and downloadAllAsZip is in flight at
\* any time, and each of them changes nothing when it is called with isBusy set.
C4_OneInFlight ==
    [][/\ Cardinality(Active') <= 1
       /\ (lastCall'.op = "whileBusy") => UNCHANGED progVars]_vars

\* C4 witness: one operation is in flight and a click was made meanwhile.
C4_Witness ==
    /\ isBusy
    /\ lastCall.op = "whileBusy"
    /\ Cardinality(Active) = 1

\* C5: a convertAll called when every item is done starts no decode and no encode,
\* sends no encode-channel request and leaves every item as it is.
C5_ConvertAllIdempotent ==
    [][(/\ lastCall'.op = "convertAll"
        /\ \A i \in DOMAIN items : items[i].status = "done") =>
          /\ items' = items
          /\ tasks' = tasks
          /\ Active' = {}
          /\ isBusy' = FALSE
          /\ UNCHANGED channelVars]_vars

\* C5 witness: convertAll has just run over a list of two or more done items.
C5_Witness ==
    /\ lastCall.op = "convertAll"
    /\ Len(items) >= 2
    /\ \A i \in DOMAIN items : items[i].status = "done"
    /\ ~isBusy

\* C6: a change of the quality or of the format resets every item to ready with no
\* output and no error, whatever its status was, keeps the items themselves, and
\* leaves convertAll nothing to skip.
C6_Invalidation ==
    [][(quality' # quality \/ format' # format) =>
          /\ Len(items') = Len(items)
          /\ \A i \in DOMAIN items' :
                /\ items'[i].status = "ready"
                /\ NoOutput(items'[i])
                /\ ~IsSet(items'[i].error)
                /\ items'[i].id = items[i].id
                /\ items'[i].file = items[i].file
                /\ ~Skipped(items'[i])]_vars

\* C6 witness: a settings listener has run on a list that held a done item and an
\* error item.
C6_Witness ==
    /\ lastCall.op \in {"qualityInput", "formatChange"}
    /\ \E i, j \in DOMAIN lastCall.arg :
          lastCall.arg[i] = "done" /\ lastCall.arg[j] = "error"
    /\ Len(items) = Len(lastCall.arg)

\* The files of a batch whose type is image/jpeg or image/png, in input order.
RECURSIVE JpegOrPng(_)
JpegOrPng(fs) ==
    IF fs = <<>> THEN <<>>
    ELSE IF Head(fs).type = "image/jpeg" \/ Head(fs).type = "image/png"
         THEN <<Head(fs)>> \o JpegOrPng(Tail(fs))
         ELSE JpegOrPng(Tail(fs))

\* C7: add files appends exactly the jpeg and png files of the batch, in input
\* order, after the existing items, each ready with no output and no error; the
\* existing items are untouched; the rejection message is shown iff a file was
\* rejected.
C7_AddPartitions ==
    [][lastCall'.op = "addFiles" =>
          LET fs == lastCall'.arg
              acc == JpegOrPng(fs)
          IN /\ Len(items') = Len(items) + Len(acc)
             /\ \A i \in DOMAIN items : items'[i] = items[i]
             /\ \A k \in 1..Len(acc) :
                   LET it == items'[Len(items) + k]
                   IN /\ it.file = acc[k]
                      /\ it.status = "ready"
                      /\ NoOutput(it)
                      /\ ~IsSet(it.error)
             /\ (errorText' = RejectedMsg) <=> (Len(acc) < Len(fs))]_vars

\* C7 witness: a batch with an accepted and a rejected file has been added to a
\* list that already held an item.
C7_Witness ==
    /\ lastCall.op = "addFiles"
    /\ Len(JpegOrPng(lastCall.arg)) \in 1..(Len(lastCall.arg) - 1)
    /\ Len(items) > Len(JpegOrPng(lastCall.arg))
    /\ errorText = RejectedMsg

\* C8: every new item gets an id greater than every id handed out before (those of
\* discarded items included: all were at most nextItemId), ids are pairwise
\* distinct, and an item that stays in the list keeps its id.
C8_IdsNeverReused ==
    [][/\ nextItemId' >= nextItemId
       /\ \A i \in DOMAIN items : items[i].id <= nextItemId
       /\ \A i \in Kept : items'[i].id = items[i].id
       /\ \A j \in DOMAIN items' \ DOMAIN items :
             items'[j].id > nextItemId /\ items'[j].id <= nextItemId'
       /\ \A i, j \in DOMAIN items' : i # j => items'[i].id # items'[j].id]_vars

\* C8 witness: items were added after a clear-all that discarded earlier ones.
C8_Witness ==
    /\ lastCall.op = "addFiles"
    /\ Len(items) > 0
    /\ items[1].id > 1

\* C9: in every reachable state each item has none of its three output fields set
\* or all three.
C9_NeverPartial ==
    \A i \in DOMAIN items : NoOutput(items[i]) \/ AllOutput(items[i])

\* C9 witness: one item holds an output while another is being converted.
C9_Witness ==
    \E i, j \in DOMAIN items :
        /\ AllOutput(items[i]) /\ items[i].status = "done"
        /\ NoOutput(items[j]) /\ items[j].status = "converting"

\* C10: in every reachable state an item's error field is set if and only if its
\* status is error.
C10_ErrorIffError ==
    \A i \in DOMAIN items : IsSet(items[i].error) <=> items[i].status = "error"

\* C10 witness: an item has failed in convertAll and the loop converts the next one.
C10_Witness ==
    \E i, j \in DOMAIN items :
        /\ items[i].status = "error" /\ IsSet(items[i].error)
        /\ items[j].status = "converting" /\ lastCall.op = "decodeDone"

\* C11: every step that completes a conversion attempt of an item (its status leaves
\* converting for done or error, in convertOne or in convertAll) leaves the item
\* with all three output fields set and no error, or with an error and no output
\* field, also when the item held an output of an earlier attempt.
C11_ExactlyOneOutcome ==
    [][\A i \in Kept :
          (items[i].status = "converting" /\ items'[i].status \in {"done", "error"}) =>
              \/ AllOutput(items'[i]) /\ ~IsSet(items'[i].error)
              \/ IsSet(items'[i].error) /\ NoOutput(items'[i])]_vars

\* The message of the failure a step has caught, as a nullable: what the decode or
\* the webp encode threw, or the error of the ok:false response the step delivered
\* to a pending request.
StepFailure ==
    IF lastCall'.op \in {"decodeDone", "encodeWebpDone"} /\ lastCall'.arg # <<"ok">>
    THEN lastCall'.arg
    ELSE IF /\ lastCall'.op = "workerMessage"
            /\ \E m \in fromWorker \ fromWorker' :
                  ~m.ok /\ \E p \in avifPending : p[1] = m.id
         THEN Some((CHOOSE m \in fromWorker \ fromWorker' : TRUE).error)
         ELSE Null

\* C12: a decode failure, an unavailable encoder or an encode-channel rejection
\* gives the item being converted status error with the failure's message and
\* shows no top-level error; convertOne then ends with the busy flag cleared;
\* convertAll goes on to the next item that is not done (and ends normally when
\* there is none), and no other item changes.
C12_FailureCaught ==
    [][IsSet(StepFailure) =>
          \E t \in Active : \E i \in DOMAIN items :
              /\ items[i].id = tasks[t].item
              /\ items[i].status = "converting"
              /\ items'[i].status = "error"
              /\ items'[i].error = StepFailure
              /\ errorText' = errorText
              /\ Len(items') = Len(items)
              /\ LET rest == {j \in DOMAIN items : j > i /\ items[j].status # "done"}
                 IN IF tasks[t].kind = "all" /\ rest # {}
                    THEN /\ \A j \in DOMAIN items \ {i} :
                               IF j \in rest /\ \A m \in rest : j <= m
                               THEN /\ items'[j].status = "converting"
                                    /\ items'[j].id = items[j].id
                               ELSE items'[j] = items[j]
                         /\ tasks'[t].kind = "all"
                         /\ tasks'[t].item # tasks[t].item
                         /\ isBusy'
                    ELSE /\ \A j \in DOMAIN items \ {i} : items'[j] = items[j]
                         /\ Active' = {}
                         /\ ~isBusy'
                         /\ ~controlsDisabled']_vars

\* C12 witness: in a convertAll run the encode channel has rejected the request of
\* one item, which is now in error with the codec's message, and the loop has
\* started the next item.
C12_Witness ==
    /\ lastCall.op = "workerMessage"
    /\ \E t \in Active : tasks[t].kind = "all"
    /\ \E i, j \in DOMAIN items :
          /\ i < j
          /\ items[i].status = "error" /\ items[i].error = Some(CodecErrorMsg)
          /\ items[j].status = "converting"

\* The positions of the items that are being converted.
ConvertingNow(its) == {i \in DOMAIN its : its[i].status = "converting"}
\* The activations that await a decode or an encode.
Working(ts) == {t \in Slots : ts[t].pc \in {"decode", "encodeWebp", "awaitAvif"}}

\* C13: at most one item is converting at any time; while convertAll runs, the
\* item it converts is the only one converting, every item before it in the list
\* is done or error, and the loop never goes back in the list; at most one decode
\* or encode is awaited and at most one encode request is pending.
C13_Sequential ==
    [][/\ Cardinality(ConvertingNow(items')) <= 1
       /\ Cardinality(Working(tasks')) <= 1
       /\ Cardinality(avifPending') <= 1
       /\ \A t \in Slots :
             tasks'[t].kind = "all" =>
                /\ ConvertingNow(items') = {tasks'[t].idx}
                /\ items'[tasks'[t].idx].id = tasks'[t].item
                /\ \A m \in 1..(tasks'[t].idx - 1) :
                      items'[m].status \in {"done", "error"}
                /\ tasks[t].kind = "all" => tasks'[t].idx >= tasks[t].idx]_vars

\* C13 witness: convertAll has finished the first item of the list and awaits the
\* encode of the second.
C13_Witness ==
    \E t \in Slots :
        /\ tasks[t].kind = "all"
        /\ tasks[t].idx = 2
        /\ tasks[t].pc \in {"encodeWebp", "awaitAvif"}
        /\ items[1].status \in {"done", "error"}
        /\ items[2].status = "converting"

\* C14: a delivered response settles the completion pending under its own id and no
\* other: the caller of that request leaves its await with a blob of the
\* response's bytes, which are the encoding of that caller's own image, or with the
\* response's error; every other pending completion stays pending and its caller
\* stays as it was.
C14_Correlation ==
    [][lastCall'.op = "workerMessage" =>
          LET m == lastCall'.arg[1]
          IN \A p \in avifPending :
                IF p[1] = m.id
                THEN /\ p \notin avifPending'
                     /\ tasks[p[2]].req = m.id
                     /\ IF m.ok
                        THEN /\ tasks'[p[2]].pc = "resolved"
                             /\ tasks'[p[2]].got[1].blob[1].bytes = m.bytes[1]
                             /\ m.bytes[1].rgba = tasks[p[2]].item
                             /\ m.bytes[1].quality = tasks[p[2]].quality
                        ELSE /\ tasks'[p[2]].pc = "rejected"
                             /\ tasks'[p[2]].got[1].error = m.error
                ELSE /\ p \in avifPending'
                     /\ tasks'[p[2]] = tasks[p[2]]]_vars

\* C14 witness: requests 1 and 2, for different images, were pending together; the
\* response to 2 was delivered first and the response to 1 has just been
\* delivered; each caller holds the encoding of its own image.
C14_Witness ==
    /\ lastCall.op = "workerMessage"
    /\ lastCall.arg[1].id = 1
    /\ \E t1, t2 \in Slots :
          /\ tasks[t1].req = 1 /\ tasks[t2].req = 2
          /\ tasks[t1].item # tasks[t2].item
          /\ tasks[t1].pc = "resolved" /\ tasks[t2].pc = "resolved"
          /\ tasks[t1].got[1].blob[1].bytes.rgba = tasks[t1].item
          /\ tasks[t2].got[1].blob[1].bytes.rgba = tasks[t2].item

\* The ids under which a completion is pending.
PendingIds(pend) == {p[1] : p \in pend}

\* C15: a completion is settled at most once: after a response is delivered no
\* completion is pending under its id, and an id once used is never registered
\* again; a response whose id has no pending completion (an unknown id, or one
\* already settled) changes neither the pending map nor any item, nor anything
\* else of the page.
C15_SettledOnce ==
    [][/\ \A p \in avifPending' \ avifPending : p[1] > avifReqId
       /\ lastCall'.op \in {"workerMessage", "lateMessage"} =>
             LET m == lastCall'.arg[1]
             IN /\ m.id \notin PendingIds(avifPending')
                /\ m.id \notin PendingIds(avifPending) =>
                      UNCHANGED <<avifPending, items, tasks, isBusy, controlsDisabled,
                                  errorText, nextItemId, avifReqId, toWorker>>]_vars

\* C15 witness: the response to request 1 was delivered and its item is done;
\* while request 2 is pending, a second response with id 1 has been delivered.
C15_Witness ==
    /\ lastCall.op = "lateMessage"
    /\ lastCall.arg[1].id = 1
    /\ PendingIds(avifPending) = {2}
    /\ \E i, j \in DOMAIN items :
          items[i].status = "done" /\ items[j].status = "converting"

\* C16: when a response with ok:false is delivered under the id of a pending
\* request, exactly that completion leaves the pending map, and the item whose
\* conversion awaited it ends the step with status error and the response's error
\* string as its error.
C16_WorkerFailure ==
    [][(/\ lastCall'.op = "workerMessage"
        /\ ~lastCall'.arg[1].ok
        /\ lastCall'.arg[1].id \in PendingIds(avifPending)) =>
          LET m == lastCall'.arg[1]
          IN \E t \in Slots :
                /\ <<m.id, t>> \in avifPending
                /\ tasks[t].req = m.id
                /\ avifPending' = avifPending \ {<<m.id, t>>}
                /\ \E i \in DOMAIN items :
                      /\ items[i].id = tasks[t].item
                      /\ items[i].status = "converting"
                      /\ items'[i].status = "error"
                      /\ items'[i].error = <<m.error>>]_vars

\* C16 witness: the worker has answered the request of a convertOne with ok:false;
\* the conversion has ended and its item carries the worker's message.
C16_Witness ==
    /\ lastCall.op = "workerMessage"
    /\ ~lastCall.arg[1].ok
    /\ lastCall.arg[1].error = CodecErrorMsg
    /\ Active = {}
    /\ ~isBusy
    /\ \E i \in DOMAIN items :
          items[i].status = "error" /\ items[i].error = <<CodecErrorMsg>>

\* C17: an error event of the worker changes nothing but the console: the pending
\* map (so every completion pending before is pending after), every item, the
\* busy flag, the awaiting conversions and the messages in flight stay as they
\* were.
C17_WorkerErrorFrame ==
    [][lastCall'.op = "workerError" =>
          /\ avifPending' = avifPending
          /\ items' = items
          /\ isBusy' = isBusy
          /\ UNCHANGED <<tasks, controlsDisabled, errorText, toWorker, fromWorker,
                         avifReqId, avifWorker>>]_vars

\* C17 witness: the worker has raised an error event while a request is pending
\* and its item is being converted.
C17_Witness ==
    /\ lastCall.op = "workerError"
    /\ avifPending # {}
    /\ isBusy
    /\ \E i \in DOMAIN items : items[i].status = "converting"

\* A ZIP reader: little-endian fields at byte position p (counted from 0), the n
\* bytes from p on, and the string of UTF-8 bytes.
Le16At(b, p) == b[p + 1] + 256 * b[p + 2]
Le32At(b, p) == [hi |-> Le16At(b, p + 2), lo |-> Le16At(b, p)]
NumberOf(w) == w.hi * 65536 + w.lo
Slice(b, p, n) == SubSeq(b, p + 1, p + n)

RECURSIVE Utf8Decode(_)
Utf8Decode(b) ==
    IF b = <<>> THEN <<>>
    ELSE IF b[1] < 128 THEN <<b[1]>> \o Utf8Decode(SubSeq(b, 2, Len(b)))
    ELSE IF b[1] < 224
         THEN <<(b[1] - 192) * 64 + (b[2] - 128)>> \o Utf8Decode(SubSeq(b, 3, Len(b)))
         ELSE <<(b[1] - 224) * 4096 + (b[2] - 128) * 64 + (b[3] - 128)>>
              \o Utf8Decode(SubSeq(b, 4, Len(b)))

\* The position of the end-of-central-directory record: the last place where its
\* signature 0x06054b50 stands (-1 when there is none).
EocdAt(b) ==
    LET at == {p \in 0..(Len(b) - 22) : Le32At(b, p) = [hi |-> 1541, lo |-> 19280]}
    IN IF at = {} THEN -1 ELSE CHOOSE p \in at : \A q \in at : q <= p

\* The k central records from position pos on, each with what its local header
\* and the data after it hold.
RECURSIVE ReadCentral(_, _, _)
ReadCentral(b, pos, k) ==
    IF k = 0 THEN <<>>
    ELSE LET nameLen == Le16At(b, pos + 28)
             local == NumberOf(Le32At(b, pos + 42))
             size == NumberOf(Le32At(b, pos + 20))
             localNameLen == Le16At(b, local + 26)
         IN <<[pos |-> pos,
               signature |-> Le32At(b, pos),
               method |-> Le16At(b, pos + 10),
               crc |-> Le32At(b, pos + 16),
               compressedSize |-> size,
               size |-> NumberOf(Le32At(b, pos + 24)),
               name |-> Utf8Decode(Slice(b, pos + 46, nameLen)),
               local |-> local,
               localSignature |-> Le32At(b, local),
               localCrc |-> Le32At(b, local + 14),
               localSize |-> NumberOf(Le32At(b, local + 22)),
               localName |-> Utf8Decode(Slice(b, local + 30, localNameLen)),
               data |-> Slice(b, local + 30 + localNameLen + Le16At(b, local + 28), size),
               localEnd |-> local + 30 + localNameLen + Le16At(b, local + 28) + size,
               end |-> pos + 46 + nameLen + Le16At(b, pos + 30) + Le16At(b, pos + 32)]>>
              \o ReadCentral(b, pos + 46 + nameLen + Le16At(b, pos + 30)
                                + Le16At(b, pos + 32), k - 1)

\* The CRC-32 of the blobs of the archives built, from a reference implementation.
ReferenceCrc(data) ==
    IF data = <<>> THEN [hi |-> 0, lo |-> 0]
    ELSE IF data = <<255>> THEN [hi |-> 65280, lo |-> 0]
    ELSE [hi |-> 6764, lo |-> 55219]

\* C18: the archive built from entries whose blobs are all readable ends with its
\* end-of-central-directory record; read through that record and the central
\* directory it yields as many entries as were given, with the same names and
\* byte-identical data in the same order; each central record points at the byte
\* position of its entry's local header (the entries follow one another from
\* position 0), records and local headers carry the data's CRC-32 and length, and
\* the EOCD offset and size are the position and the length of the central
\* directory.
C18_ZipRoundTrip ==
    (lastCall.op = "buildZip" /\ \A i \in DOMAIN lastCall.arg[1] :
                                     lastCall.arg[1][i].blob # Null) =>
        LET entries == lastCall.arg[1]
            b == lastCall.arg[2][1].blob[1].bytes
            e == EocdAt(b)
            count == Le16At(b, e + 10)
            centralSize == NumberOf(Le32At(b, e + 12))
            centralOffset == NumberOf(Le32At(b, e + 16))
            read == ReadCentral(b, centralOffset, count)
        IN /\ lastCall.arg[2][1].blob[1].type = "application/zip"
           /\ e = Len(b) - 22
           /\ count = Len(entries)
           /\ Le16At(b, e + 8) = count
           /\ Len(read) = Len(entries)
           /\ centralOffset = IF count = 0 THEN 0 ELSE read[count].localEnd
           /\ centralSize = e - centralOffset
           /\ count > 0 => read[count].end = e
           /\ \A i \in DOMAIN read :
                 /\ read[i].signature = [hi |-> 513, lo |-> 19280]
                 /\ read[i].localSignature = [hi |-> 1027, lo |-> 19280]
                 /\ read[i].pos = IF i = 1 THEN centralOffset ELSE read[i - 1].end
                 /\ read[i].local = IF i = 1 THEN 0 ELSE read[i - 1].localEnd
                 /\ read[i].method = 0
                 /\ read[i].name = entries[i].name
                 /\ read[i].localName = entries[i].name
                 /\ read[i].data = entries[i].blob[1]
                 /\ read[i].crc = ReferenceCrc(entries[i].blob[1])
                 /\ read[i].localCrc = read[i].crc
                 /\ read[i].size = Len(entries[i].blob[1])
                 /\ read[i].compressedSize = read[i].size
                 /\ read[i].localSize = read[i].size

\* C18 witness: an archive of two entries has been built, the first with a name
\* of more bytes than characters and two bytes of data, the second with other
\* data.
C18_Witness ==
    /\ lastCall.op = "buildZip"
    /\ Len(lastCall.arg[1]) = 2
    /\ lastCall.arg[1][1] = [name |-> <<233, 46, 97>>, blob |-> <<<<80, 75>>>>]
    /\ lastCall.arg[1][2].blob = <<<<255>>>>
    /\ lastCall.arg[2][1].blob # <<>>
    /\ Len(lastCall.arg[2][1].blob[1].bytes) > 22

\* C19: when a blob read rejects during the archive build, buildZip hands no
\* archive to downloadAllAsZip: saveBlob is not called (no save is awaited), the
\* failure's message is shown as the top-level error, every item stays as it was
\* and the busy flag and the controls are released.
C19_ArchiveReadFailure ==
    [][(lastCall'.op = "buildZipDone" /\ lastCall'.arg # <<"ok">>) =>
          /\ errorText' = lastCall'.arg[1]
          /\ errorText' # ""
          /\ items' = items
          /\ \A t \in Slots : tasks'[t].pc # "saveBlob"
          /\ Active' = {}
          /\ isBusy /\ ~isBusy'
          /\ ~controlsDisabled']_vars

\* C19 witness: a bulk export of a done item has failed at a blob read; the
\* message is shown, the item still holds its output and nothing is busy.
C19_Witness ==
    /\ lastCall = Call("buildZipDone", <<ArchiveReadFailedMsg>>)
    /\ errorText = ArchiveReadFailedMsg
    /\ ~isBusy
    /\ \E i \in DOMAIN items : items[i].status = "done" /\ AllOutput(items[i])

\* The positions of the '.' characters of a file name.
DotsOf(f) == {i \in 1..Len(f) : f[i] = 46}
LastDotOf(f) == CHOOSE i \in DotsOf(f) : \A j \in DotsOf(f) : j <= i

\* C20 as stated: a file name that contains a '.' gives the text before its last
\* '.', then '.' and the extension; a file name without '.' gets '.' and the
\* extension appended.
C20_OriginalDerivation ==
    lastCall.op = "withExt" =>
        LET f == lastCall.arg[1]
            ext == lastCall.arg[2]
            out == lastCall.arg[3]
        IN IF DotsOf(f) # {}
           THEN out = SubSeq(f, 1, LastDotOf(f) - 1) \o <<46>> \o ext
           ELSE out = f \o <<46>> \o ext

\* C20 amended: a file name whose last '.' is not its first character gives the
\* text before that '.', then '.' and the extension (photo.JPEG gives photo.avif
\* for avif); a file name without '.', or whose only '.' is its first character,
\* gets '.' and the extension appended.
C20_Derivation ==
    lastCall.op = "withExt" =>
        LET f == lastCall.arg[1]
            ext == lastCall.arg[2]
            out == lastCall.arg[3]
        IN /\ ext \in {<<119, 101, 98, 112>>, <<97, 118, 105, 102>>}
           /\ IF DotsOf(f) # {} /\ LastDotOf(f) > 1
              THEN out = SubSeq(f, 1, LastDotOf(f) - 1) \o <<46>> \o ext
              ELSE out = f \o <<46>> \o ext

\* C20 witness: photo.JPEG has given photo.avif.
C20_Witness ==
    lastCall = Call("withExt", <<<<112, 104, 111, 116, 111, 46, 74, 80, 69, 71>>,
                               <<97, 118, 105, 102>>,
                               <<112, 104, 111, 116, 111, 46, 97, 118, 105, 102>>>>)

\* ---------------------------------------------------------------- C21
\* How often a preview URL has been passed to URL.revokeObjectURL.
Released(u) == Cardinality({k \in DOMAIN revoked : revoked[k] = u})
\* The preview URLs created so far: one per item ever pushed.
CreatedUrls == 1..nextItemId
UrlsInList == {items[i].inputUrl : i \in DOMAIN items}

\* C21: every preview URL created for an item is released exactly once. No URL is
\* ever released twice and only created URLs are released; while the session
\* lasts a URL is released exactly when its item has left the list; once the
\* session has ended every created URL has been released once. A clear-all step
\* releases the URL of every item of the list and leaves the list empty; the
\* session-end step releases the URLs of exactly the items still in the list.
C21_ReleasedOnce ==
    /\ [](/\ \A k \in DOMAIN revoked : revoked[k] \in CreatedUrls
          /\ \A u \in CreatedUrls : Released(u) <= 1
          /\ ~unloaded => \A u \in CreatedUrls : (Released(u) = 1) <=> (u \notin UrlsInList)
          /\ unloaded => \A u \in CreatedUrls : Released(u) = 1)
    /\ [][/\ (lastCall'.op = "clearClick") =>
                /\ items' = <<>>
                /\ revoked' = revoked \o [i \in DOMAIN items |-> items[i].inputUrl]
          /\ (lastCall'.op = "beforeunload") =>
                /\ items' = items
                /\ revoked' = revoked \o [i \in DOMAIN items |-> items[i].inputUrl]
          /\ (lastCall'.op \notin {"clearClick", "beforeunload"}) => revoked' = revoked]_vars

\* The session has ended with one URL released by an earlier clear-all and one
\* released by the session end itself.
C21_Witness ==
    /\ unloaded
    /\ Len(items) > 0
    /\ Len(revoked) > Len(items)
    /\ \A u \in CreatedUrls : Released(u) = 1

\* ---------------------------------------------------------------- C22
\* The reflected CRC-32 defined bit by bit on a register of 32 bits, lowest bit
\* first: the register starts as all ones; each message bit (lowest bit of each
\* byte first) is XORed with the register's lowest bit, the register moves one
\* place down, and the polynomial 0xEDB88320 is XORed in when that XOR was 1; the
\* result is the register XOR all ones.
RECURSIVE BitsOf(_, _)
BitsOf(n, k) == IF k = 0 THEN <<>> ELSE <<n % 2>> \o BitsOf(n \div 2, k - 1)
\* 0xEDB88320 = 1110 1101 1011 1000 1000 0011 0010 0000, written lowest bit first.
PolynomialBits ==
    <<0,0,0,0, 0,1,0,0, 1,1,0,0, 0,0,0,1, 0,0,0,1, 1,1,0,1, 1,0,1,1, 0,1,1,1>>
OneBits ==
    <<1,1,1,1, 1,1,1,1, 1,1,1,1, 1,1,1,1, 1,1,1,1, 1,1,1,1, 1,1,1,1, 1,1,1,1>>
RECURSIVE XorBits(_, _)
XorBits(a, b) ==
    IF a = <<>> THEN <<>>
    ELSE <<(Head(a) + Head(b)) % 2>> \o XorBits(Tail(a), Tail(b))
RECURSIVE RegisterAfter(_, _)
RegisterAfter(reg, bits) ==
    IF bits = <<>> THEN reg
    ELSE LET moved == Tail(reg) \o <<0>>
         IN IF Head(reg) # Head(bits)
            THEN RegisterAfter(XorBits(moved, PolynomialBits), Tail(bits))
            ELSE RegisterAfter(moved, Tail(bits))
RECURSIVE ValueOf(_)
ValueOf(bits) == IF bits = <<>> THEN 0 ELSE Head(bits) + 2 * ValueOf(Tail(bits))
\* The register after the bits of every byte of the message: after the bits of
\* its last byte, from the register after the bytes before.
RECURSIVE RegisterOf(_)
RegisterOf(bytes) ==
    IF bytes = <<>> THEN OneBits
    ELSE RegisterAfter(RegisterOf(SubSeq(bytes, 1, Len(bytes) - 1)),
                       BitsOf(bytes[Len(bytes)], 8))
BitwiseCrc(bytes) ==
    LET out == XorBits(RegisterOf(bytes), OneBits)
    IN [hi |-> ValueOf(SubSeq(out, 17, 32)), lo |-> ValueOf(SubSeq(out, 1, 16))]

\* C22: crc32 is the standard reflected CRC-32: for every byte sequence it is
\* called on, the result equals the bitwise definition (polynomial 0xEDB88320,
\* initial value and final XOR 0xFFFFFFFF) and is a number of 0..2^32-1; of the
\* empty input it is 0 and of the bytes "123456789" it is 0xCBF43926.
C22_StandardCrc ==
    (lastCall.op = "crc32") =>
        LET bytes == lastCall.arg[1]
            crc == lastCall.arg[2]
        IN /\ crc = BitwiseCrc(bytes)
           /\ crc.hi \in 0..65535 /\ crc.lo \in 0..65535
           /\ (bytes = <<>>) => crc = [hi |-> 0, lo |-> 0]
           /\ (bytes = <<49, 50, 51, 52, 53, 54, 55, 56, 57>>) =>
                 crc = [hi |-> 52212, lo |-> 14630]

\* crc32 has been called on "123456789" and returned 0xCBF43926.
C22_Witness ==
    /\ lastCall.op = "crc32"
    /\ lastCall.arg[1] = CheckBytes
    /\ lastCall.arg[2] = [hi |-> 52212, lo |-> 14630]
    /\ lastCall.arg[2] = BitwiseCrc(CheckBytes)

\* ---------------------------------------------------------------- C23
\* C23: when every awaited operation settles, every started convert-one,
\* convert-all and bulk export finishes: a set busy flag is eventually cleared and
\* a suspended activation eventually ends, whatever the outcomes were; and
\* whenever the busy flag is clear no item is converting.
C23_Terminates ==
    /\ isBusy ~> ~isBusy
    /\ (Active # {}) ~> (Active = {})
    /\ [](~isBusy => \A i \in DOMAIN items : items[i].status # "converting")

\* A convert-all has just finished on a failure path: its last step was a
\* rejection, the busy flag is clear again, no activation is suspended and no
\* item is converting, one item having failed and another having been converted.
C23_Witness ==
    /\ ~isBusy
    /\ Active = {}
    /\ lastCall.op \in {"decodeDone", "encodeWebpDone", "workerMessage"}
    /\ \E i \in DOMAIN items : items[i].status = "error"
    /\ \E i \in DOMAIN items : items[i].status = "done"
    /\ \A i \in DOMAIN items : items[i].status # "converting"

\* ---------------------------------------------------------------- C24
\* C24: avifPending never holds more than one entry, and a request is sent (the
\* request id advances) only from a state in which avifPending is empty, the new
\* request then being its only entry; this holds whether or not the worker ever
\* answers.
C24_OnePending ==
    /\ [](Cardinality(avifPending) <= 1)
    /\ [][(avifReqId' # avifReqId) =>
             /\ avifPending = {}
             /\ avifReqId' = avifReqId + 1
             /\ \E t \in Slots : avifPending' = {<<avifReqId', t>>}]_vars

\* A second request is pending after the first one was settled, the worker not
\* having answered it yet.
C24_Witness ==
    /\ avifReqId = 2
    /\ PendingIds(avifPending) = {2}
    /\ \E req \in toWorker : req.id = 2
    /\ fromWorker = {}

\* ---------------------------------------------------------------- C25
\* C25: an item is converting only while the busy flag is set; while the flag is
\* clear no item is converting and avifPending is empty.
C25_BusyCoversConverting ==
    /\ (\E i \in DOMAIN items : items[i].status = "converting") => isBusy
    /\ ~isBusy => /\ ConvertingNow(items) = {}
                  /\ avifPending = {}

\* The busy flag is clear again after an AVIF conversion that went through the
\* worker: the item is done, nothing is pending and nothing is converting.
C25_Witness ==
    /\ ~isBusy
    /\ avifReqId > 0
    /\ avifPending = {}
    /\ lastCall.op = "workerMessage"
    /\ \E i \in DOMAIN items : items[i].status = "done"
    /\ ConvertingNow(items) = {}
====
